---------------------------- MODULE Spec2Model ----------------------------
(***************************************************************************)
(* A model of etl.py: the MovieLens -> MySQL loader with optional OMDb     *)
(* enrichment.  Strings are sequences of one-character strings, None is    *)
(* the empty tuple where the value is optional, and the MySQL session is   *)
(* a pair (working view, committed view) of each table.                    *)
(***************************************************************************)
EXTENDS Integers, Sequences, FiniteSets, TLC

(***************************************************************************)
(* Bounds of the model.  OMDB_DAILY_LIMIT, COMMIT_EVERY, SAVE_EVERY and    *)
(* CHUNKSIZE stand for the program's 1000, 50, 100 and 250000: the code    *)
(* only compares against them, so they are scaled to values a run of       *)
(* MaxMovies rows can reach.                                               *)
(***************************************************************************)
OMDB_DAILY_LIMIT == 3

COMMIT_EVERY == 2

SAVE_EVERY == 2

CHUNKSIZE == 2

MaxMovies == 2

MaxRatingRows == 3

(***************************************************************************)
(* Values                                                                  *)
(***************************************************************************)
None == <<>>

Some(v) == <<v>>

Digits == {"0", "1", "2", "3", "4", "5", "6", "7", "8", "9"}

DigitVal(c) ==
    CASE c = "0" -> 0 [] c = "1" -> 1 [] c = "2" -> 2 [] c = "3" -> 3
      [] c = "4" -> 4 [] c = "5" -> 5 [] c = "6" -> 6 [] c = "7" -> 7
      [] c = "8" -> 8 [] c = "9" -> 9

DigitChar(d) ==
    CASE d = 0 -> "0" [] d = 1 -> "1" [] d = 2 -> "2" [] d = 3 -> "3"
      [] d = 4 -> "4" [] d = 5 -> "5" [] d = 6 -> "6" [] d = 7 -> "7"
      [] d = 8 -> "8" [] d = 9 -> "9"

\* int(s) of a string of decimal digits
RECURSIVE ParseInt(_)
ParseInt(s) ==
    IF s = <<>> THEN 0
    ELSE 10 * ParseInt(SubSeq(s, 1, Len(s) - 1)) + DigitVal(s[Len(s)])

\* str(n) of a natural number
RECURSIVE IntToStr(_)
IntToStr(n) ==
    IF n < 10 THEN <<DigitChar(n)>>
    ELSE IntToStr(n \div 10) \o <<DigitChar(n % 10)>>

IsDigits(s) == s # <<>> /\ \A i \in 1..Len(s) : s[i] \in Digits

\* a pandas cell that is not a string (a missing title is NaN)
NaN == <<"nan", "float">>

IsStr(t) == t # NaN

\* str.strip(): leading and trailing blanks removed
RECURSIVE LStrip(_)
LStrip(s) == IF s # <<>> /\ s[1] = " " THEN LStrip(Tail(s)) ELSE s

RECURSIVE RStrip(_)
RStrip(s) ==
    IF s # <<>> /\ s[Len(s)] = " " THEN RStrip(SubSeq(s, 1, Len(s) - 1)) ELSE s

Strip(s) == LStrip(RStrip(s))

(***************************************************************************)
(* Title normalizer                                                        *)
(***************************************************************************)
\* the regular expression \(\d{4}\) matches s at position i
YearAt(s, i) ==
    /\ i >= 1
    /\ i + 5 <= Len(s)
    /\ s[i] = "("
    /\ \A k \in 1..4 : s[i + k] \in Digits
    /\ s[i + 5] = ")"

extract_year_from_title(title) ==
    IF ~IsStr(title) THEN None
    ELSE LET hits == {i \in 1..Len(title) : YearAt(title, i)}
         IN  IF hits = {} THEN None
             ELSE LET m == CHOOSE i \in hits : \A j \in hits : i <= j
                  IN  Some(ParseInt(SubSeq(title, m + 1, m + 4)))

\* re.sub(r"\s*\(\d{4}\)\s*$", "", title).strip()
clean_title_for_query(title) ==
    IF ~IsStr(title) THEN <<>>
    ELSE LET t == RStrip(title)
             n == Len(t)
         IN  IF YearAt(t, n - 5)
             THEN Strip(RStrip(SubSeq(t, 1, n - 6)))
             ELSE Strip(title)

(***************************************************************************)
(* Input data: the titles, catalog rows, OMDb payloads and rating rows the *)
(* runs are drawn from                                                     *)
(***************************************************************************)
\* "T (1995)": year 1995, clean title "T", no prefix to fall back to
TitleToy == <<"T", " ", "(", "1", "9", "9", "5", ")">>

\* "A:B (1995)": year 1995, clean title "A:B", prefix "A"
TitleColon == <<"A", ":", "B", " ", "(", "1", "9", "9", "5", ")">>

\* "P-Q": no year, clean title "P-Q", prefix "P"
TitleDash == <<"P", "-", "Q">>

Titles == {TitleToy, TitleColon, TitleDash}

RowToy == [movieId |-> <<"1">>, title |-> TitleToy, genres |-> "Animation"]

RowColon == [movieId |-> <<"2">>, title |-> TitleColon, genres |-> "Drama"]

RowDash == [movieId |-> <<"2">>, title |-> TitleDash, genres |-> "Drama"]

\* a row whose movieId is not a number
RowBadId == [movieId |-> <<"x">>, title |-> TitleToy, genres |-> "Animation"]

\* "X (1990) (1995)": two parentheticals, the trailing one is (1995)
TitleTwoYears ==
    <<"X", " ", "(", "1", "9", "9", "0", ")", " ", "(", "1", "9", "9", "5", ")">>

\* "(1995) B": a parenthetical that is not trailing
TitleYearInside == <<"(", "1", "9", "9", "5", ")", " ", "B">>

\* "T (1995) ": a trailing parenthetical followed by a blank
TitleBlankAfter == <<"T", " ", "(", "1", "9", "9", "5", ")", " ">>

RowTwoYears == [movieId |-> <<"3">>, title |-> TitleTwoYears, genres |-> "Drama"]

RowYearInside == [movieId |-> <<"4">>, title |-> TitleYearInside, genres |-> "Drama"]

RowBlankAfter == [movieId |-> <<"5">>, title |-> TitleBlankAfter, genres |-> "Drama"]

\* a row whose title cell is empty (pandas reads NaN)
RowNoTitle == [movieId |-> <<"6">>, title |-> NaN, genres |-> "Drama"]

\* rows that exercise the title normalizer
NormalizerRows == {RowTwoYears, RowYearInside, RowBlankAfter, RowNoTitle}

MovieRows == {RowToy, RowColon, RowDash, RowBadId}

RECURSIVE SeqsUpTo(_, _)
SeqsUpTo(S, n) ==
    IF n = 0 THEN {<<>>}
    ELSE LET shorter == SeqsUpTo(S, n - 1)
         IN  shorter \cup {Append(s, x) : s \in {t \in shorter : Len(t) = n - 1}, x \in S}

\* an OMDb reply with "Response": "True"
PayloadFull ==
    [Director |-> Some("Lasseter"), Plot |-> Some("N/A"), BoxOffice |-> None,
     Year |-> Some(<<"1", "9", "9", "6">>), imdbID |-> Some("tt1")]

PayloadSeries ==
    [Director |-> Some("N/A"), Plot |-> Some("plot"), BoxOffice |-> Some("$1"),
     Year |-> Some(<<"1", "9", "9", "5", "-">>), imdbID |-> Some("tt2")]

Payloads == {PayloadFull}

\* datetime.now(timezone.utc).isoformat() at the time of an enrichment
Times == {"2024-01-01T00:00:00+00:00"}

(***************************************************************************)
(* The relational store.  A table is a function from its key to the row;   *)
(* the connection works on a view that commit() makes durable and          *)
(* rollback() discards (autocommit=False).                                 *)
(***************************************************************************)
NoTable == [k \in {} |-> None]

Put(f, k, v) == [x \in DOMAIN f \cup {k} |-> IF x = k THEN v ELSE f[x]]

\* REPLACE INTO movies (movieId, title, genres): the upsert C8 rules out, which
\* rewrites the whole row
replace_movie_query(tbl, movieId, title, genres) ==
    Put(tbl, movieId,
        [title |-> title, genres |-> genres, director |-> None, plot |-> None,
         box_office |-> None, year |-> None, imdb_id |-> None,
         last_enriched_at |-> None])

\* INSERT INTO movies (movieId, title, genres) ... ON DUPLICATE KEY UPDATE
\*   title = VALUES(title), genres = VALUES(genres)
insert_movie_query(tbl, movieId, title, genres) ==
    IF movieId \in DOMAIN tbl
    THEN Put(tbl, movieId, [tbl[movieId] EXCEPT !.title = title, !.genres = genres])
    ELSE Put(tbl, movieId,
             [title |-> title, genres |-> genres, director |-> None, plot |-> None,
              box_office |-> None, year |-> None, imdb_id |-> None,
              last_enriched_at |-> None])

\* UPDATE movies SET director=.., plot=.., box_office=.., year=.., imdb_id=..,
\*   last_enriched_at=.. WHERE movieId=..
update_enrichment_query(tbl, e, movieId) ==
    IF movieId \in DOMAIN tbl
    THEN Put(tbl, movieId,
             [tbl[movieId] EXCEPT !.director = e.director, !.plot = e.plot,
                                  !.box_office = e.box_office, !.year = e.year,
                                  !.imdb_id = e.imdb_id,
                                  !.last_enriched_at = Some(e.enriched_at)])
    ELSE tbl

\* ... ON DUPLICATE KEY UPDATE rating = VALUES(rating), timestamp =
\*   VALUES(timestamp): the policy C4 rules out, a NULL overwrites a timestamp
insert_rating_overwrite(tbl, r) ==
    Put(tbl, <<r.userId, r.movieId>>, [rating |-> r.rating, timestamp |-> r.timestamp])

\* INSERT INTO ratings ... ON DUPLICATE KEY UPDATE rating = VALUES(rating),
\*   timestamp = IF(VALUES(timestamp) IS NOT NULL, VALUES(timestamp), timestamp)
insert_rating_query(tbl, r) ==
    LET k == <<r.userId, r.movieId>>
    IN  IF k \in DOMAIN tbl
        THEN Put(tbl, k, [rating |-> r.rating,
                          timestamp |-> IF r.timestamp # None THEN r.timestamp
                                        ELSE tbl[k].timestamp])
        ELSE Put(tbl, k, [rating |-> r.rating, timestamp |-> r.timestamp])

\* cursor.executemany(insert_rating_query, ratings_data)
RECURSIVE executemany(_, _)
executemany(tbl, rows) ==
    IF rows = <<>> THEN tbl
    ELSE executemany(insert_rating_query(tbl, Head(rows)), Tail(rows))

(***************************************************************************)
(* Enrichment orchestrator: the pure parts of enrich_movie                 *)
(***************************************************************************)
\* Python truth of an optional integer: None and 0 are false
Truthy(year) == year # None /\ year[1] # 0

\* f"{clean_title}__{year if year else ''}"
CacheKey(title) ==
    LET year == extract_year_from_title(title)
    IN  clean_title_for_query(title) \o <<"_", "_">>
          \o (IF Truthy(year) THEN IntToStr(year[1]) ELSE <<>>)

\* the en dash U+2013, one character
EnDash == "ndash"

Separators == {":", "-", EnDash}

\* re.split(r"[:\-<en dash>]", clean_title)[0].strip()
AltTitle(clean) ==
    LET seps == {i \in 1..Len(clean) : clean[i] \in Separators}
    IN  IF seps = {} THEN Strip(clean)
        ELSE LET m == CHOOSE i \in seps : \A j \in seps : i <= j
             IN  Strip(SubSeq(clean, 1, m - 1))

\* None if data.get(f) in (None, "N/A") else data.get(f)
NormNA(v) == IF v = None \/ v = Some("N/A") THEN None ELSE v

\* the enrichment record built from a successful reply
BuildEnriched(data, year, now) ==
    [director |-> NormNA(data.Director),
     plot |-> NormNA(data.Plot),
     box_office |-> NormNA(data.BoxOffice),
     year |-> IF data.Year # None /\ IsDigits(data.Year[1])
              THEN Some(ParseInt(data.Year[1])) ELSE year,
     imdb_id |-> data.imdbID,
     raw |-> data,
     enriched_at |-> now]

\* The fallback queries of enrich_movie, numbered in the order of the code:
\* 1 (clean, year), 2 (clean), 3 (alt, year=year), 4 (alt).
QueryArgs(title, n) ==
    LET year == extract_year_from_title(title)
        clean == clean_title_for_query(title)
        alt == AltTitle(clean)
    IN  CASE n = 1 -> <<clean, year>>
          [] n = 2 -> <<clean, None>>
          [] n = 3 -> <<alt, year>>
          [] n = 4 -> <<alt, None>>

FirstQuery(title) == IF Truthy(extract_year_from_title(title)) THEN 1 ELSE 2

\* an enrich_movie that goes on to the next query whatever the last one
\* returned (what C14 rules out)
NextQueryRegardless(title, n, result) ==
    LET clean == clean_title_for_query(title)
        alt == AltTitle(clean)
    IN  CASE n = 1 -> 2
          [] n = 2 -> IF alt # <<>> /\ alt # clean THEN 3 ELSE 0
          [] n = 3 -> 4
          [] n = 4 -> 0

\* The query enrich_movie makes after query n returned `result` (None or
\* Some(data)); 0 when it makes no further query.
NextQuery(title, n, result) ==
    LET clean == clean_title_for_query(title)
        alt == AltTitle(clean)
    IN  IF result # None THEN 0
        ELSE CASE n = 1 -> 2
               [] n = 2 -> IF alt # <<>> /\ alt # clean THEN 3 ELSE 0
               [] n = 3 -> 4
               [] n = 4 -> 0

(***************************************************************************)
(* State                                                                   *)
(***************************************************************************)
VARIABLES
    no_enrich,          \* --no-enrich
    limit,              \* --limit: None or Some(n)
    recreate_ratings,   \* --recreate-ratings
    OMDB_API_KEY,       \* TRUE when the credential is configured
    pc,                 \* the place of main() the run is at
    exit,               \* how main() ended, "" while it runs
    connOpen,           \* the MySQL connection is open
    movies_csv,         \* the file movies.csv: None when absent, else Some(rows)
    ratings_csv,        \* the file ratings.csv: None when absent, else Some(rows)
    movies_df,          \* the catalog read from movies.csv
    ratings_present,    \* ratings.csv was found
    idx,                \* rows of movies_df the loop has taken
    total,              \* main's total
    enriched_count,     \* main's enriched_count
    cur,                \* the row whose enrich_movie call is in progress
    q,                  \* the fallback query in progress (0: none)
    OMDB_CALL_COUNT,
    RATE_LIMITED,
    cache,              \* the in-memory cache dict
    cacheFile,          \* omdb_cache.json: None when absent
    movies,             \* movies table as the connection sees it
    moviesCommitted,    \* movies table as committed
    ratings,            \* ratings table as the connection sees it (None: no table)
    ratingsCommitted,   \* ratings table as committed
    backups,            \* the ratings_bad_<ts> tables
    rpos,               \* rows of ratings.csv the chunk iterator has read
    chunk_count,
    total_inserted,
    chunkLog,           \* the last chunk: its rows, len(ratings_data), bad_rows and
                        \* whether its upsert was committed
    faults,             \* the MySQL server and the file system may fail in this run
    called,             \* the latest enrich_movie call made a session.get call
    requestAfterFlag,   \* a session.get call was made with RATE_LIMITED set
    slept,              \* the latest enrich_movie call ended in time.sleep(OMDB_SLEEP)
    last,               \* per (userId, movieId): the rating of the last upsert applied
                        \* and the timestamp of the last one that carried a timestamp
    lastCommitted,      \* the same, of the upserts committed
    movies0,            \* the movies table as the run found it
    ratings0,           \* the ratings table as the run found it (None: no table)
    asked,              \* the numbers of the queries the latest enrich_movie call
                        \* has submitted to query_omdb, in order
    outcome,            \* what ended the latest of them ("" while it has not returned)
    answered            \* a request of that enrich_movie call was answered "not found"

vars ==
    <<no_enrich, limit, recreate_ratings, OMDB_API_KEY, pc, exit, connOpen,
      movies_csv, ratings_csv, movies_df, ratings_present, idx, total,
      enriched_count, cur, q, OMDB_CALL_COUNT, RATE_LIMITED, cache, cacheFile,
      movies, moviesCommitted, ratings, ratingsCommitted, backups, rpos,
      chunk_count, total_inserted, chunkLog, called, requestAfterFlag, slept, last,
      faults,
      lastCommitted, movies0, ratings0, asked, outcome, answered>>

flagVars ==
    <<no_enrich, limit, recreate_ratings, OMDB_API_KEY, movies_csv, ratings_csv, faults,
      movies0, ratings0>>

omdbVars ==
    <<OMDB_CALL_COUNT, RATE_LIMITED, called, requestAfterFlag, asked, outcome, answered>>

ratingVars == <<ratings, ratingsCommitted, backups, last, lastCommitted>>

loaderVars == <<rpos, chunk_count, total_inserted, chunkLog>>

(***************************************************************************)
(* What the run starts from                                                *)
(***************************************************************************)
\* the record a prior run cached and wrote for "T (1995)"
OldEnriched == BuildEnriched(PayloadSeries, Some(1995), "2023-01-01T00:00:00+00:00")

\* the movies table before the run: empty, or movie 1 loaded and enriched by
\* a prior run under an older title
MoviesBefore ==
    { NoTable,
      update_enrichment_query(
          insert_movie_query(NoTable, 1, <<"T", "o", "y">>, "Kids"), OldEnriched, 1) }

\* omdb_cache.json before the run: absent, or holding a record or a miss
CacheFilesBefore ==
    { None,
      Some(Put(NoTable, CacheKey(TitleToy), Some(OldEnriched))),
      Some(Put(NoTable, CacheKey(TitleToy), None)) }

\* the ratings table before the run: no table, or one row
RatingsBefore ==
    { None,
      Some(Put(NoTable, <<1, 1>>, [rating |-> 30, timestamp |-> Some(100)])) }

Catalogs == SeqsUpTo(MovieRows, MaxMovies)

\* rows of ratings.csv: userId, movieId, rating, timestamp (epoch seconds)
GoodRating ==
    [userId |-> <<"1">>, movieId |-> <<"1">>, rating |-> <<"3", ".", "0">>,
     timestamp |-> <<"1", "0", "0">>]

RatingRows ==
    { GoodRating,
      [userId |-> <<"1">>, movieId |-> <<"1">>, rating |-> <<"4", ".", "5">>,
       timestamp |-> <<>>],
      [userId |-> <<"1">>, movieId |-> <<"1">>, rating |-> <<"4", ".", "5">>,
       timestamp |-> <<"2", "0", "0">>],
      [userId |-> <<"x">>, movieId |-> <<"1">>, rating |-> <<"4", ".", "0">>,
       timestamp |-> <<"1", "0", "0">>],
      [userId |-> <<"1">>, movieId |-> <<"1">>, rating |-> <<"f", "i", "v", "e">>,
       timestamp |-> <<"1", "0", "0">>] }

RatingFiles == SeqsUpTo(RatingRows, MaxRatingRows)

\* The state main() starts in: `in` gives, per input, the set it is drawn from
Start(in) ==
    /\ movies_csv \in in.movies_csv
    /\ ratings_csv \in in.ratings_csv
    /\ no_enrich \in in.no_enrich
    /\ limit \in in.limit
    /\ recreate_ratings \in in.recreate_ratings
    /\ OMDB_API_KEY \in in.OMDB_API_KEY
    /\ faults \in in.faults
    /\ pc = "connect"
    /\ exit = ""
    /\ connOpen = FALSE
    /\ movies_df = None
    /\ ratings_present = FALSE
    /\ idx = 0
    /\ total = 0
    /\ enriched_count = 0
    /\ cur = None
    /\ q = 0
    /\ OMDB_CALL_COUNT = 0
    /\ RATE_LIMITED = FALSE
    /\ cache = NoTable
    /\ cacheFile \in in.cacheFile
    /\ movies \in in.movies
    /\ moviesCommitted = movies
    /\ movies0 = movies
    /\ ratings \in in.ratings
    /\ ratingsCommitted = ratings
    /\ ratings0 = ratings
    /\ asked = <<>>
    /\ outcome = ""
    /\ answered = FALSE
    /\ backups = {}
    /\ rpos = 0
    /\ chunk_count = 0
    /\ total_inserted = 0
    /\ chunkLog = None
    /\ called = FALSE
    /\ requestAfterFlag = FALSE
    /\ slept = FALSE
    /\ last = IF ratings = None THEN NoTable ELSE ratings[1]
    /\ lastCommitted = last

\* whether a statement, a commit or a file write succeeds
OkOrNot == IF faults THEN BOOLEAN ELSE {TRUE}

(***************************************************************************)
(* Connecting, the optional table recreation, reading the files            *)
(***************************************************************************)
\* main, lines 226-243: mysql.connector.connect
Connect ==
    /\ pc = "connect"
    /\ \E ok \in OkOrNot :
         IF ok
         THEN /\ connOpen' = TRUE
              /\ pc' = IF recreate_ratings THEN "recreate" ELSE "load"
              /\ exit' = exit
         ELSE /\ connOpen' = FALSE
              /\ pc' = "done"
              /\ exit' = "connect_failed"
    /\ UNCHANGED <<flagVars, movies_df, ratings_present, idx, total, enriched_count,
                   cur, q, omdbVars, cache, cacheFile, movies, moviesCommitted,
                   ratingVars, loaderVars, slept>>

\* recreate_ratings_table_if_requested: RENAME TABLE (a failure is logged),
\* CREATE TABLE IF NOT EXISTS (a failure is raised out of main), commit.
\* DDL is not transactional: both views of the store change.
RecreateRatings ==
    /\ pc = "recreate"
    /\ \E renameOk \in OkOrNot, createOk \in OkOrNot :
         LET renamed == ratings # None /\ renameOk
             afterRename == IF renamed THEN None ELSE ratings
             afterCreate == IF afterRename = None THEN Some(NoTable) ELSE afterRename
         IN  /\ backups' = IF renamed THEN backups \cup {ratings[1]} ELSE backups
             /\ IF createOk
                THEN /\ ratings' = afterCreate
                     /\ pc' = "load"
                     /\ exit' = exit
                ELSE /\ ratings' = afterRename
                     /\ pc' = "done"
                     /\ exit' = "raised"
             /\ ratingsCommitted' = ratings'
             /\ last' = IF renamed THEN NoTable ELSE last
             /\ lastCommitted' = last'
    /\ moviesCommitted' = movies
    /\ UNCHANGED <<flagVars, connOpen, movies_df, ratings_present, idx, total,
                   enriched_count, cur, q, omdbVars, cache, cacheFile, movies,
                   loaderVars, slept>>

\* load_cache: the file's mapping, {} when it is absent
load_cache == IF cacheFile = None THEN NoTable ELSE cacheFile[1]

\* main, lines 246-292: read movies.csv (absent: close and return), look for
\* ratings.csv, load the cache
LoadCsv ==
    /\ pc = "load"
    /\ LET df == movies_csv
             present == ratings_csv # None
       IN
         IF df = None
         THEN /\ connOpen' = FALSE
              /\ pc' = "done"
              /\ exit' = "no_movies"
              /\ UNCHANGED <<movies_df, ratings_present, cache, movies, ratings>>
         ELSE /\ movies_df' = df[1]
              /\ ratings_present' = present
              /\ cache' = load_cache
              /\ pc' = "movies"
              /\ UNCHANGED <<connOpen, exit, movies, ratings>>
    /\ UNCHANGED <<flagVars, idx, total, enriched_count, cur, q, omdbVars, cacheFile,
                   moviesCommitted, ratingsCommitted, backups, last, lastCommitted,
                   loaderVars, slept>>

(***************************************************************************)
(* LoadingMovies                                                           *)
(***************************************************************************)
\* what the store and the file system answer during the rest of one row:
\* the enrichment UPDATE, the periodic commit, the periodic cache save
Outcomes == [update : OkOrNot, commit : OkOrNot, save : OkOrNot]

\* a loop that never commits on the way (what C18 rules out)
CommitNeverDue(ec) == FALSE

\* main, line 344: enriched_count % 50 == 0
CommitDue(ec) == ec % COMMIT_EVERY = 0

\* main, lines 329-356: the rest of a loop iteration once enrich_movie has
\* returned `enriched` (None or Some(record)), leaving the cache as cacheNew,
\* sleptNew telling whether it slept, with the movies table as tbl.
\* A commit that raises leaves the transaction open.
RowTail(movieId, enriched, cacheNew, sleptNew, tbl, o) ==
    LET written == enriched # None /\ o.update
        tbl2 == IF written THEN update_enrichment_query(tbl, enriched[1], movieId)
                ELSE tbl
        ec == IF written THEN enriched_count + 1 ELSE enriched_count
        committed == written /\ CommitDue(ec) /\ o.commit
        tot == total + 1
    IN  /\ movies' = tbl2
        /\ moviesCommitted' = IF committed THEN tbl2 ELSE moviesCommitted
        /\ ratingsCommitted' = IF committed THEN ratings ELSE ratingsCommitted
        /\ lastCommitted' = IF committed THEN last ELSE lastCommitted
        /\ enriched_count' = ec
        /\ total' = tot
        /\ cache' = cacheNew
        /\ slept' = sleptNew
        /\ cacheFile' = IF tot % SAVE_EVERY = 0 /\ o.save THEN Some(cacheNew)
                        ELSE cacheFile
        /\ cur' = None
        /\ q' = 0
        /\ pc' = "movies"

\* a loop that ignores --no-enrich (what C10 rules out)
EnrichRegardless == FALSE

\* main, line 322: enrichment is skipped under --no-enrich
SkipEnrichment == no_enrich

\* a lookup that never finds the key (what C6 rules out)
CacheNeverHit(c, key) == FALSE

\* enrich_movie, line 150: key in cache
CacheHit(c, key) == key \in DOMAIN c

\* a cache that remembers records only, not failures (what C7 rules out)
CacheStoreRecordsOnly(c, key, enriched) ==
    IF enriched = None THEN c ELSE Put(c, key, enriched)

\* enrich_movie, lines 155 and 183: cache[key] = enriched
CacheStore(c, key, enriched) == Put(c, key, enriched)

\* int(row["movieId"]): None when it raises
IntCell(cell) == IF IsDigits(cell) THEN Some(ParseInt(cell)) ELSE None

\* main, lines 299-327: one turn of the movie loop up to the first OMDb query.
\* The break tests, the movieId coercion, the base upsert (a MySQL error is
\* logged), then enrich_movie up to its first query_omdb call.
MovieRow ==
    /\ pc = "movies"
    /\ ~RATE_LIMITED
    /\ ~(limit # None /\ total >= limit[1])
    /\ idx < Len(movies_df)
    /\ idx' = idx + 1
    /\ LET row == movies_df[idx + 1]
           mid == IntCell(row.movieId)
           key == CacheKey(row.title)
       IN  IF mid = None
           THEN UNCHANGED <<pc, total, enriched_count, cur, q, cache, cacheFile,
                            movies, moviesCommitted, ratingsCommitted, lastCommitted,
                            slept>>
           ELSE \E upsertOk \in OkOrNot, o \in Outcomes :
                  LET tbl == IF upsertOk
                             THEN insert_movie_query(movies, mid[1], row.title, row.genres)
                             ELSE movies
                  IN  IF SkipEnrichment
                      THEN RowTail(mid[1], None, cache, FALSE, tbl, o)
                      ELSE IF CacheHit(cache, key)
                      THEN RowTail(mid[1], cache[key], cache, FALSE, tbl, o)
                      ELSE IF ~OMDB_API_KEY
                      THEN RowTail(mid[1], None, CacheStore(cache, key, None), FALSE,
                                   tbl, o)
                      ELSE /\ movies' = tbl
                           /\ cur' = Some([movieId |-> mid[1], title |-> row.title])
                           /\ q' = FirstQuery(row.title)
                           /\ pc' = "query"
                           /\ UNCHANGED <<total, enriched_count, cache, cacheFile,
                                          moviesCommitted, ratingsCommitted,
                                          lastCommitted, slept>>
    /\ called' = FALSE
    /\ asked' = <<>>
    /\ outcome' = ""
    /\ answered' = FALSE
    /\ UNCHANGED <<flagVars, exit, connOpen, movies_df, ratings_present,
                   OMDB_CALL_COUNT, RATE_LIMITED, requestAfterFlag, ratings, backups,
                   last, loaderVars>>

\* enrich_movie, lines 161-185, and main after it: what follows the return of
\* the query in progress with `result` (None or Some(data))
AfterQuery(result, o, now) ==
    LET title == cur[1].title
        nq == NextQuery(title, q, result)
        enriched == IF result # None
                    THEN Some(BuildEnriched(result[1], extract_year_from_title(title), now))
                    ELSE None
    IN  IF nq # 0
        THEN /\ q' = nq
             /\ pc' = "query"
             /\ UNCHANGED <<total, enriched_count, cur, cache, cacheFile, movies,
                            moviesCommitted, ratingsCommitted, lastCommitted, slept>>
        ELSE RowTail(cur[1].movieId, enriched,
                     CacheStore(cache, CacheKey(title), enriched), TRUE, movies, o)

\* What ended a query_omdb call, by the reply to its last request: a record,
\* an answer without a record, a 401, or an exception (session.get or
\* resp.json() raised)
Outcome(reply) ==
    CASE reply = "found" -> "record"
      [] reply \in {"notfound", "nohit"} -> "notfound"
      [] reply = "401" -> "unauthorized"
      [] reply \in {"raise", "badjson"} -> "failed"

\* query_omdb, lines 96-119: the budget test, the credential test and the
\* title lookup.  The reply is a 401, a record, "not found", a body that is
\* not JSON, or no reply at all (session.get raises).
QueryTitle ==
    /\ pc = "query"
    /\ \E o \in Outcomes, now \in Times :
         IF OMDB_CALL_COUNT >= OMDB_DAILY_LIMIT
         THEN
            /\ RATE_LIMITED' = TRUE
            /\ UNCHANGED <<OMDB_CALL_COUNT, called, requestAfterFlag>>
            /\ asked' = Append(asked, q)
            /\ outcome' = "skipped"
            /\ UNCHANGED answered
            /\ AfterQuery(None, o, now)
         ELSE IF ~OMDB_API_KEY
         THEN
            /\ UNCHANGED <<OMDB_CALL_COUNT, RATE_LIMITED, called, requestAfterFlag>>
            /\ asked' = Append(asked, q)
            /\ outcome' = "skipped"
            /\ UNCHANGED answered
            /\ AfterQuery(None, o, now)
         ELSE
            /\ called' = TRUE
            /\ requestAfterFlag' = (requestAfterFlag \/ RATE_LIMITED)
            /\ \E reply \in {"raise", "401", "badjson", "found", "notfound"} :
                 /\ OMDB_CALL_COUNT' = IF reply = "raise" THEN OMDB_CALL_COUNT
                                       ELSE OMDB_CALL_COUNT + 1
                 /\ RATE_LIMITED' = (RATE_LIMITED \/ reply = "401")
                 /\ asked' = Append(asked, q)
                 /\ outcome' = IF reply = "notfound" THEN "" ELSE Outcome(reply)
                 /\ answered' = (answered \/ reply = "notfound")
                 /\ CASE reply \in {"raise", "401", "badjson"} -> AfterQuery(None, o, now)
                      [] reply = "found" ->
                           \E data \in Payloads : AfterQuery(Some(data), o, now)
                      [] reply = "notfound" ->
                           /\ pc' = "search"
                           /\ UNCHANGED <<total, enriched_count, cur, q, cache,
                                          cacheFile, movies, moviesCommitted,
                                          ratingsCommitted, lastCommitted, slept>>
    /\ UNCHANGED <<flagVars, exit, connOpen, movies_df, ratings_present, idx,
                   ratings, backups, last, loaderVars>>

\* query_omdb, lines 121-129: the search request.  Its status code is not
\* looked at: a 401 body is JSON without "Response": "True".
QuerySearch ==
    /\ pc = "search"
    /\ called' = TRUE
    /\ requestAfterFlag' = (requestAfterFlag \/ RATE_LIMITED)
    /\ UNCHANGED <<RATE_LIMITED, asked>>
    /\ \E o \in Outcomes, now \in Times,
          reply \in {"raise", "401", "badjson", "hit", "nohit"} :
         /\ OMDB_CALL_COUNT' = IF reply = "raise" THEN OMDB_CALL_COUNT
                               ELSE OMDB_CALL_COUNT + 1
         /\ outcome' = IF reply = "hit" THEN outcome ELSE Outcome(reply)
         /\ answered' = (answered \/ reply = "nohit")
         /\ IF reply = "hit"
            THEN /\ pc' = "lookup"
                 /\ UNCHANGED <<total, enriched_count, cur, q, cache, cacheFile, movies,
                                moviesCommitted, ratingsCommitted, lastCommitted, slept>>
            ELSE AfterQuery(None, o, now)
    /\ UNCHANGED <<flagVars, exit, connOpen, movies_df, ratings_present, idx,
                   ratings, backups, last, loaderVars>>

\* query_omdb, lines 130-135: the lookup of the first search hit by its id
QueryId ==
    /\ pc = "lookup"
    /\ called' = TRUE
    /\ requestAfterFlag' = (requestAfterFlag \/ RATE_LIMITED)
    /\ UNCHANGED <<RATE_LIMITED, asked>>
    /\ \E o \in Outcomes, now \in Times,
          reply \in {"raise", "401", "badjson", "found", "notfound"} :
         /\ OMDB_CALL_COUNT' = IF reply = "raise" THEN OMDB_CALL_COUNT
                               ELSE OMDB_CALL_COUNT + 1
         /\ outcome' = Outcome(reply)
         /\ answered' = (answered \/ reply = "notfound")
         /\ IF reply = "found"
            THEN \E data \in Payloads : AfterQuery(Some(data), o, now)
            ELSE AfterQuery(None, o, now)
    /\ UNCHANGED <<flagVars, exit, connOpen, movies_df, ratings_present, idx,
                   ratings, backups, last, loaderVars>>

\* main, lines 299-305 and 374-379: the loop ends (rate limit, --limit or the
\* end of the catalog), the cache is saved, and the ratings phase is entered
\* if ratings.csv was found
MoviesDone ==
    /\ pc = "movies"
    /\ \/ RATE_LIMITED
       \/ limit # None /\ total >= limit[1]
       \/ idx >= Len(movies_df)
    /\ \E saveOk \in OkOrNot :
         cacheFile' = IF saveOk THEN Some(cache) ELSE cacheFile
    /\ pc' = IF ratings_present THEN "ratings" ELSE "commit"
    /\ UNCHANGED <<flagVars, exit, connOpen, movies_df, ratings_present, idx, total,
                   enriched_count, cur, q, omdbVars, cache, movies, moviesCommitted,
                   ratingVars, loaderVars, slept>>

\* a handler that falls through to the ratings phase (what C11 rules out)
AfterInterruptLoadRatings == "ratings"

\* main, line 372: where the KeyboardInterrupt handler leaves main (return)
AfterInterrupt == "done"

\* main, lines 358-372: a KeyboardInterrupt raised inside the movie loop (no
\* except clause of the loop, of enrich_movie or of query_omdb catches it).
\* The handler saves the cache, tries to commit, closes the cursor and the
\* connection and returns.
Interrupt ==
    /\ pc \in {"movies", "query", "search", "lookup"}
    /\ \E saveOk \in OkOrNot, commitOk \in OkOrNot :
         /\ cacheFile' = IF saveOk THEN Some(cache) ELSE cacheFile
         /\ moviesCommitted' = IF commitOk THEN movies ELSE moviesCommitted
         /\ ratingsCommitted' = IF commitOk THEN ratings ELSE ratingsCommitted
         /\ lastCommitted' = IF commitOk THEN last ELSE lastCommitted
    /\ movies' = moviesCommitted'
    /\ ratings' = ratingsCommitted'
    /\ last' = lastCommitted'
    /\ connOpen' = FALSE
    /\ pc' = AfterInterrupt
    /\ exit' = "interrupted"
    /\ UNCHANGED <<flagVars, movies_df, ratings_present, idx, total, enriched_count,
                   cur, q, omdbVars, cache, backups, loaderVars, slept>>

(***************************************************************************)
(* LoadingRatings                                                          *)
(***************************************************************************)
\* float(r["rating"]) of a decimal cell ("4", "4.5", "4.", ".5", "4.25"), as
\* the DECIMAL(3,2) column stores it, in hundredths (a third fractional digit
\* rounds half up); None when float() raises
FloatCell(cell) ==
    LET dots == {i \in 1..Len(cell) : cell[i] = "."}
        d == IF dots = {} THEN Len(cell) + 1 ELSE CHOOSE i \in dots : TRUE
        whole == SubSeq(cell, 1, d - 1)
        frac == SubSeq(cell, d + 1, Len(cell))
        digit(i) == IF i <= Len(frac) THEN DigitVal(frac[i]) ELSE 0
    IN  IF /\ Cardinality(dots) <= 1
           /\ whole \o frac # <<>>
           /\ \A i \in 1..Len(whole) : whole[i] \in Digits
           /\ \A i \in 1..Len(frac) : frac[i] \in Digits
        THEN Some(100 * ParseInt(whole) + 10 * digit(1) + digit(2)
                  + (IF digit(3) >= 5 THEN 1 ELSE 0))
        ELSE None

\* pd.to_datetime(cell, unit="s", errors="coerce"), then the DATETIME string:
\* the second of the epoch, None (NULL) for NaT
TimestampCell(cell) == IF IsDigits(cell) THEN Some(ParseInt(cell)) ELSE None

\* lines 395-408 for one row: the tuple appended to ratings_data, None when
\* the row is counted as bad
CoerceRow(r) ==
    LET uid == IntCell(r.userId)
        mid == IntCell(r.movieId)
        rating == FloatCell(r.rating)
    IN  IF uid = None \/ mid = None \/ rating = None THEN None
        ELSE Some([userId |-> uid[1], movieId |-> mid[1], rating |-> rating[1],
                   timestamp |-> TimestampCell(r.timestamp)])

\* a loader in which one bad row empties the chunk (what C9 rules out)
RatingsDataAllOrNothing(chunk) ==
    IF \E i \in 1..Len(chunk) : CoerceRow(chunk[i]) = None THEN <<>>
    ELSE [i \in 1..Len(chunk) |-> CoerceRow(chunk[i])[1]]

\* ratings_data of a chunk: the coerced rows, in order
RECURSIVE RatingsData(_)
RatingsData(chunk) ==
    IF chunk = <<>> THEN <<>>
    ELSE CoerceRow(Head(chunk)) \o RatingsData(Tail(chunk))

\* bad_rows of a chunk: the rows whose coercion raised
RECURSIVE BadRows(_)
BadRows(chunk) ==
    IF chunk = <<>> THEN 0
    ELSE (IF CoerceRow(Head(chunk)) = None THEN 1 ELSE 0) + BadRows(Tail(chunk))

Min(a, b) == IF a <= b THEN a ELSE b

Max(S) == CHOOSE x \in S : \A y \in S : y <= x

\* the last-upsert record after the upserts `rows` follow those of `old`
LastAfter(old, rows) ==
    LET keys == DOMAIN old \cup {<<rows[i].userId, rows[i].movieId>> : i \in 1..Len(rows)}
        at(k) == {i \in 1..Len(rows) : <<rows[i].userId, rows[i].movieId>> = k}
        stamped(k) == {i \in at(k) : rows[i].timestamp # None}
    IN  [k \in keys |->
           [rating |-> IF at(k) = {} THEN old[k].rating ELSE rows[Max(at(k))].rating,
            timestamp |-> IF stamped(k) # {} THEN rows[Max(stamped(k))].timestamp
                          ELSE IF k \in DOMAIN old THEN old[k].timestamp
                          ELSE None]]

\* main, lines 382-428: one chunk of ratings.csv.  executemany raises when
\* the table is missing or the server refuses a row; a commit that raises is
\* handled like it; rollback may itself fail (the failure is swallowed).
RatingsChunk ==
    /\ pc = "ratings"
    /\ rpos < Len(ratings_csv[1])
    /\ LET upto == Min(rpos + CHUNKSIZE, Len(ratings_csv[1]))
           chunk == SubSeq(ratings_csv[1], rpos + 1, upto)
           ratings_data == RatingsData(chunk)
           bad_rows == BadRows(chunk)
       IN  /\ rpos' = upto
           /\ chunk_count' = chunk_count + 1
           /\ IF ratings_data = <<>>
              THEN /\ chunkLog' = Some([chunk |-> chunk, sent |-> 0,
                                        bad |-> bad_rows, committed |-> FALSE])
                   /\ UNCHANGED <<total_inserted, movies, moviesCommitted, ratings,
                                  ratingsCommitted, last, lastCommitted>>
              ELSE \E execOk \in OkOrNot, commitOk \in OkOrNot, rollbackOk \in OkOrNot :
                     LET applied == ratings # None /\ execOk
                         tbl == IF applied THEN Some(executemany(ratings[1], ratings_data))
                                ELSE ratings
                         lst == IF applied THEN LastAfter(last, ratings_data) ELSE last
                         ok == applied /\ commitOk
                     IN  /\ chunkLog' = Some([chunk |-> chunk,
                                              sent |-> Len(ratings_data),
                                              bad |-> bad_rows, committed |-> ok])
                         /\ total_inserted' = IF ok THEN total_inserted + Len(ratings_data)
                                              ELSE total_inserted
                         /\ IF ok
                            THEN /\ ratings' = tbl
                                 /\ ratingsCommitted' = tbl
                                 /\ last' = lst
                                 /\ lastCommitted' = lst
                                 /\ moviesCommitted' = movies
                                 /\ movies' = movies
                            ELSE IF rollbackOk
                            THEN /\ ratings' = ratingsCommitted
                                 /\ last' = lastCommitted
                                 /\ movies' = moviesCommitted
                                 /\ UNCHANGED <<ratingsCommitted, lastCommitted,
                                                moviesCommitted>>
                            ELSE /\ ratings' = tbl
                                 /\ last' = lst
                                 /\ UNCHANGED <<movies, ratingsCommitted, lastCommitted,
                                                moviesCommitted>>
    /\ UNCHANGED <<flagVars, pc, exit, connOpen, movies_df, ratings_present, idx, total,
                   enriched_count, cur, q, omdbVars, cache, cacheFile, backups, slept>>

\* main, line 382: the chunk iterator is exhausted
RatingsDone ==
    /\ pc = "ratings"
    /\ rpos >= Len(ratings_csv[1])
    /\ pc' = "commit"
    /\ UNCHANGED <<flagVars, exit, connOpen, movies_df, ratings_present, idx, total,
                   enriched_count, cur, q, omdbVars, cache, cacheFile, movies,
                   moviesCommitted, ratingVars, loaderVars, slept>>

\* main, lines 433-445: the final commit (a failure is logged), then the
\* cursor and the connection are closed; what was not committed is gone
FinalCommit ==
    /\ pc = "commit"
    /\ \E commitOk \in OkOrNot :
         /\ moviesCommitted' = IF commitOk THEN movies ELSE moviesCommitted
         /\ ratingsCommitted' = IF commitOk THEN ratings ELSE ratingsCommitted
         /\ lastCommitted' = IF commitOk THEN last ELSE lastCommitted
    /\ movies' = moviesCommitted'
    /\ ratings' = ratingsCommitted'
    /\ last' = lastCommitted'
    /\ connOpen' = FALSE
    /\ pc' = "done"
    /\ exit' = "ok"
    /\ UNCHANGED <<flagVars, movies_df, ratings_present, idx, total, enriched_count,
                   cur, q, omdbVars, cache, cacheFile, backups, loaderVars, slept>>

Next ==
    \/ Connect
    \/ RecreateRatings
    \/ LoadCsv
    \/ MovieRow
    \/ QueryTitle
    \/ QuerySearch
    \/ QueryId
    \/ MoviesDone
    \/ Interrupt
    \/ RatingsChunk
    \/ RatingsDone
    \/ FinalCommit

\* Enrichment runs: the credential is set, every catalog of up to MaxMovies
\* valid rows, a cold or warm cache, a store that does not fail
EnrichRuns ==
    Start([movies_csv |-> {Some(c) : c \in SeqsUpTo(MovieRows \ {RowBadId}, MaxMovies)},
           ratings_csv |-> {None},
           no_enrich |-> {FALSE},
           limit |-> {None, Some(1)},
           recreate_ratings |-> {FALSE},
           OMDB_API_KEY |-> {TRUE},
           faults |-> {FALSE},
           cacheFile |-> CacheFilesBefore,
           movies |-> {NoTable},
           ratings |-> {r \in RatingsBefore : r # None}])

\* Enrichment runs against a store and a file system that may fail
FaultyEnrichRuns ==
    Start([movies_csv |-> {Some(<<RowToy, RowColon>>)},
           ratings_csv |-> {None},
           no_enrich |-> {FALSE},
           limit |-> {None},
           recreate_ratings |-> {FALSE},
           OMDB_API_KEY |-> {TRUE},
           faults |-> {TRUE},
           cacheFile |-> {None},
           movies |-> {NoTable},
           ratings |-> {r \in RatingsBefore : r # None}])

\* Runs without external calls (--no-enrich or no credential): every catalog
\* of up to MaxMovies rows or no movies.csv, a store that was empty or loaded
\* by a prior run, with or without a ratings file
PlainRuns ==
    Start([movies_csv |-> {None} \cup {Some(c) : c \in Catalogs},
           ratings_csv |-> {None, Some(<<GoodRating>>)},
           no_enrich |-> {TRUE},
           limit |-> {None, Some(1)},
           recreate_ratings |-> {FALSE},
           OMDB_API_KEY |-> {TRUE},
           faults |-> BOOLEAN,
           cacheFile |-> CacheFilesBefore,
           movies |-> MoviesBefore,
           ratings |-> {r \in RatingsBefore : r # None}])
    \/ Start([movies_csv |-> {None} \cup {Some(c) : c \in Catalogs},
              ratings_csv |-> {None},
              no_enrich |-> {FALSE},
              limit |-> {None, Some(1)},
              recreate_ratings |-> {FALSE},
              OMDB_API_KEY |-> {FALSE},
              faults |-> BOOLEAN,
              cacheFile |-> CacheFilesBefore,
              movies |-> MoviesBefore,
              ratings |-> {r \in RatingsBefore : r # None}])

\* Runs that vary the ratings phase: every ratings file of up to
\* MaxRatingRows rows after a one-row catalog loaded without enrichment
RatingRuns ==
    Start([movies_csv |-> {Some(<<RowToy>>)},
           ratings_csv |-> {Some(f) : f \in RatingFiles},
           no_enrich |-> {TRUE},
           limit |-> {None},
           recreate_ratings |-> {FALSE},
           OMDB_API_KEY |-> {FALSE},
           faults |-> BOOLEAN,
           cacheFile |-> {None},
           movies |-> {NoTable},
           ratings |-> RatingsBefore])

\* Runs with --recreate-ratings
RecreateRuns ==
    Start([movies_csv |-> {None, Some(<<RowToy>>)},
           ratings_csv |-> {None} \cup {Some(f) : f \in SeqsUpTo(RatingRows, 1)},
           no_enrich |-> {TRUE},
           limit |-> {None},
           recreate_ratings |-> {TRUE},
           OMDB_API_KEY |-> {FALSE},
           faults |-> BOOLEAN,
           cacheFile |-> {None},
           movies |-> {NoTable},
           ratings |-> RatingsBefore])

\* Runs over the titles that exercise the normalizer: one row, no credential
\* (the key is computed and cached, no query is made)
NormalizerRuns ==
    Start([movies_csv |-> {Some(<<r>>) : r \in NormalizerRows \cup {RowToy, RowDash}},
           ratings_csv |-> {None},
           no_enrich |-> {FALSE},
           limit |-> {None},
           recreate_ratings |-> {FALSE},
           OMDB_API_KEY |-> {FALSE},
           faults |-> {FALSE},
           cacheFile |-> {None},
           movies |-> {NoTable},
           ratings |-> {r \in RatingsBefore : r # None}])

Init ==
    \/ EnrichRuns
    \/ FaultyEnrichRuns
    \/ PlainRuns
    \/ RatingRuns
    \/ RecreateRuns
    \/ NormalizerRuns

Spec == Init /\ [][Next]_vars

(***************************************************************************)
(* Claims                                                                  *)
(***************************************************************************)
\* C1: once RATE_LIMITED is set, by a 401 reply or by the budget test, no
\* further request is sent to OMDb in the run, the remaining fallback
\* queries of the enrich_movie call in progress included.
C1_NoRequestOnceRateLimited == ~requestAfterFlag

\* row i of the catalog has a movieId that int() accepts
ValidRow(i) == IntCell(movies_df[i].movieId) # None

\* row i is reached before --limit stops the loop
WithinLimit(i) ==
    limit = None \/ Cardinality({j \in 1..(i - 1) : ValidRow(j)}) < limit[1]

\* C2: when the movie loop is over, every catalog row within --limit has had
\* its base upsert applied, also the rows that come after the point where
\* the rate limit or the call budget was hit (the store not failing).
C2_RowsAfterRateLimitUpserted ==
    (pc \in {"ratings", "commit"} /\ chunk_count = 0 /\ ~faults) =>
        \A i \in 1..Len(movies_df) :
            (ValidRow(i) /\ WithinLimit(i)) =>
                IntCell(movies_df[i].movieId)[1] \in DOMAIN movies

\* C3: the number of external calls counted in a run never exceeds the daily
\* budget.
C3_CallCountWithinBudget == OMDB_CALL_COUNT <= OMDB_DAILY_LIMIT

\* C4: the committed ratings table holds one row per (userId, movieId) that
\* was upserted; its rating is that of the last committed upsert for the
\* pair and its timestamp that of the last committed upsert for the pair
\* that carried a timestamp (NULL if none did).
C4_RatingsConflictPolicy ==
    ratingsCommitted # None => ratingsCommitted[1] = lastCommitted

\* C4 witness: a later upsert without a timestamp was committed over a row
\* that had one: the rating is the new one, the timestamp the old one
C4_Witness ==
    /\ pc = "done"
    /\ total_inserted >= 2
    /\ ratingsCommitted # None
    /\ <<1, 1>> \in DOMAIN ratingsCommitted[1]
    /\ ratingsCommitted[1][<<1, 1>>] = [rating |-> 450, timestamp |-> Some(100)]

\* C5: a ratings chunk whose upsert fails is rolled back alone: what the
\* connection had applied to the movies table before the chunk started is
\* still there after the chunk, to be made durable by the final commit.
C5_FailedChunkKeepsEarlierWork ==
    [][(pc = "ratings" /\ chunk_count' = chunk_count + 1) => movies' = movies]_vars

\* the enrichment columns of a movies row
EnrichmentColumns(row) ==
    <<row.director, row.plot, row.box_office, row.year, row.imdb_id,
      row.last_enriched_at>>

\* the loop is about to take the catalog row idx + 1, whose movieId is valid
TakesValidRow ==
    /\ pc = "movies"
    /\ idx' = idx + 1
    /\ IntCell(movies_df[idx + 1].movieId) # None

\* the key enrich_movie computes for the catalog row idx + 1
RowKey == CacheKey(movies_df[idx + 1].title)

\* the movieId of the catalog row idx + 1
RowId == IntCell(movies_df[idx + 1].movieId)[1]

\* C6: an enrich_movie call whose key is in the cache makes no request,
\* leaves OMDB_CALL_COUNT, RATE_LIMITED and the cache as they were, does not
\* sleep, and returns the cached value: a cached record is what the
\* enrichment UPDATE writes, a cached miss writes nothing.
C6_WarmCacheNoCall ==
    [][(TakesValidRow /\ ~no_enrich /\ RowKey \in DOMAIN cache) =>
          /\ pc' = "movies"
          /\ ~called'
          /\ ~slept'
          /\ OMDB_CALL_COUNT' = OMDB_CALL_COUNT
          /\ RATE_LIMITED' = RATE_LIMITED
          /\ requestAfterFlag' = requestAfterFlag
          /\ cache' = cache
          /\ IF cache[RowKey] = None
             THEN enriched_count' = enriched_count
             ELSE faults \/
                    /\ enriched_count' = enriched_count + 1
                    /\ movies'[RowId].director = cache[RowKey][1].director
                    /\ movies'[RowId].plot = cache[RowKey][1].plot
                    /\ movies'[RowId].box_office = cache[RowKey][1].box_office
                    /\ movies'[RowId].year = cache[RowKey][1].year
                    /\ movies'[RowId].imdb_id = cache[RowKey][1].imdb_id
                    /\ movies'[RowId].last_enriched_at = Some(cache[RowKey][1].enriched_at)
      ]_vars

\* C6 witness: with the credential set, a row has been enriched from the
\* record a prior run cached, without a request and without a sleep
C6_Witness ==
    /\ pc = "movies"
    /\ ~no_enrich
    /\ OMDB_API_KEY
    /\ idx >= 1
    /\ enriched_count >= 1
    /\ OMDB_CALL_COUNT = 0
    /\ ~called
    /\ ~slept
    /\ 1 \in DOMAIN movies
    /\ movies[1].title = TitleToy
    /\ movies[1].director = OldEnriched.director
    /\ movies[1].plot = OldEnriched.plot

\* an enrich_movie call that missed the cache returns in this step
AttemptEnds ==
    \/ pc \in {"query", "search", "lookup"} /\ pc' = "movies"
    \/ TakesValidRow /\ ~no_enrich /\ RowKey \notin DOMAIN cache /\ pc' = "movies"

\* the key of the enrich_movie call in progress or about to be made
AttemptKey == IF pc = "movies" THEN RowKey ELSE CacheKey(cur[1].title)

\* C7: an enrich_movie call that missed the cache adds one entry, under its
\* key, whether it ends with a record, with a failure or for want of a
\* credential, and changes no other entry; no step of a run removes a key
\* from the cache.
C7_OneCacheEntryPerAttempt ==
    [][/\ DOMAIN cache \subseteq DOMAIN cache'
       /\ AttemptEnds =>
            /\ AttemptKey \notin DOMAIN cache
            /\ DOMAIN cache' = DOMAIN cache \cup {AttemptKey}
            /\ \A k \in DOMAIN cache : cache'[k] = cache[k]
            /\ ~OMDB_API_KEY => cache'[AttemptKey] = None
      ]_vars

\* C7 witness: a call that sent requests and got no record has ended, and
\* its failure is in the cache under the key of "A:B (1995)"
C7_Witness ==
    /\ pc = "movies"
    /\ called
    /\ slept
    /\ cur = None
    /\ CacheKey(TitleColon) \in DOMAIN cache
    /\ cache[CacheKey(TitleColon)] = None

\* C8: the base upsert of a catalog row, when the store applies it, sets the
\* title and the genres of the row of that movieId and nothing else: the
\* enrichment columns stay (NULL for a new row), the other rows stay, and
\* applying the same upsert again changes nothing.
C8_MovieUpsertIdempotent ==
    [][(TakesValidRow /\ no_enrich /\ movies' # movies) =>
          LET row == movies_df[idx + 1]
          IN  /\ DOMAIN movies' = DOMAIN movies \cup {RowId}
              /\ \A k \in DOMAIN movies : k # RowId => movies'[k] = movies[k]
              /\ movies'[RowId].title = row.title
              /\ movies'[RowId].genres = row.genres
              /\ EnrichmentColumns(movies'[RowId]) =
                    IF RowId \in DOMAIN movies THEN EnrichmentColumns(movies[RowId])
                    ELSE <<None, None, None, None, None, None>>
              /\ insert_movie_query(movies', RowId, row.title, row.genres) = movies'
      ]_vars

\* C8 witness: the row a prior run loaded as "Toy" and enriched has been
\* upserted twice with the catalog's title and genres and kept its
\* enrichment columns
C8_Witness ==
    /\ no_enrich
    /\ pc = "movies"
    /\ idx = 2
    /\ movies_df = <<RowToy, RowToy>>
    /\ 1 \in DOMAIN movies0
    /\ 1 \in DOMAIN movies
    /\ movies[1].title = TitleToy
    /\ movies[1].genres = "Animation"
    /\ movies[1].director = OldEnriched.director
    /\ movies[1].last_enriched_at = Some(OldEnriched.enriched_at)

\* the row of ratings.csv passes the three coercions of the loader
ValidRating(r) ==
    IsDigits(r.userId) /\ IsDigits(r.movieId) /\ FloatCell(r.rating) # None

\* C9: of the rows of a chunk, those whose userId, movieId and rating are
\* numbers are sent to the upsert and the others are counted as bad, so that
\* sent + bad = rows of the chunk; when the upsert is committed every valid
\* row's (userId, movieId) is in the committed table.
C9_BadRowsDroppedPerRow ==
    chunkLog # None =>
        LET c == chunkLog[1]
            valid == {i \in 1..Len(c.chunk) : ValidRating(c.chunk[i])}
        IN  /\ c.sent = Cardinality(valid)
            /\ c.bad = Len(c.chunk) - Cardinality(valid)
            /\ c.sent + c.bad = Len(c.chunk)
            /\ c.committed =>
                 /\ ratingsCommitted # None
                 /\ \A i \in valid :
                      <<ParseInt(c.chunk[i].userId), ParseInt(c.chunk[i].movieId)>>
                          \in DOMAIN ratingsCommitted[1]

\* C9 witness: a chunk with a row whose userId is not a number and a valid
\* row has been committed
C9_Witness ==
    /\ chunkLog # None
    /\ chunkLog[1].bad >= 1
    /\ chunkLog[1].sent >= 1
    /\ chunkLog[1].committed
    /\ \E i \in 1..Len(chunkLog[1].chunk) : ~IsDigits(chunkLog[1].chunk[i].userId)
    /\ ratingsCommitted # None
    /\ <<1, 1>> \in DOMAIN ratingsCommitted[1]

\* the movies table holds, per row, either what the run found or the title
\* and genres of a catalog row already taken, over the enrichment columns the
\* run found (NULL for a new row)
OnlyBaseUpserts(tbl) ==
    \A m \in DOMAIN tbl :
        \/ m \in DOMAIN movies0 /\ tbl[m] = movies0[m]
        \/ \E i \in 1..idx :
             /\ IntCell(movies_df[i].movieId) = Some(m)
             /\ tbl[m].title = movies_df[i].title
             /\ tbl[m].genres = movies_df[i].genres
             /\ EnrichmentColumns(tbl[m]) =
                   IF m \in DOMAIN movies0 THEN EnrichmentColumns(movies0[m])
                   ELSE <<None, None, None, None, None, None>>

\* C10: under --no-enrich no request is made, enrich_movie is never entered,
\* the cache holds what load_cache read, and no enrichment UPDATE runs: the
\* movie rows written have the catalog's title and genres and the enrichment
\* columns they had.
C10_NoEnrichNoExternalEffect ==
    no_enrich =>
        /\ OMDB_CALL_COUNT = 0
        /\ ~called
        /\ ~requestAfterFlag
        /\ ~RATE_LIMITED
        /\ ~slept
        /\ pc \notin {"query", "search", "lookup"}
        /\ cur = None
        /\ enriched_count = 0
        /\ cache = NoTable \/ (cacheFile # None /\ cache = cacheFile[1])
        /\ OnlyBaseUpserts(movies)
        /\ OnlyBaseUpserts(moviesCommitted)

\* C10 witness: a run with the credential set and a record for "T (1995)" in
\* the cache file has ended under --no-enrich with the row committed as the
\* catalog gives it and no enrichment
C10_Witness ==
    /\ no_enrich
    /\ OMDB_API_KEY
    /\ pc = "done"
    /\ exit = "ok"
    /\ total >= 1
    /\ cacheFile = Some(Put(NoTable, CacheKey(TitleToy), Some(OldEnriched)))
    /\ movies0 = NoTable
    /\ 1 \in DOMAIN moviesCommitted
    /\ moviesCommitted[1].title = TitleToy
    /\ moviesCommitted[1].genres = "Animation"
    /\ EnrichmentColumns(moviesCommitted[1]) = <<None, None, None, None, None, None>>

C12_ConnectionClosedAtEnd == pc = "done" => ~connOpen

\* the title, blanks at its end aside, ends with "(" four digits ")"
EndsWithYear(t) ==
    LET s == RStrip(t)
        n == Len(s)
    IN  /\ n >= 6
        /\ s[n - 5] = "("
        /\ \A k \in 1..4 : s[n - 5 + k] \in Digits
        /\ s[n] = ")"

\* the four digits of that parenthetical, as a number
TrailingYear(t) ==
    LET s == RStrip(t)
    IN  ParseInt(SubSeq(s, Len(s) - 4, Len(s) - 1))

\* the title without that parenthetical, trimmed
WithoutTrailingYear(t) ==
    LET s == RStrip(t)
    IN  Strip(SubSeq(s, 1, Len(s) - 6))

\* C13: of every catalog title the loop has taken, if it ends with "(YYYY)"
\* the extracted year is that YYYY and the clean title is the title without
\* that parenthetical; otherwise the year is None and the clean title is the
\* trimmed title.
C13_TitleNormalization ==
    \A i \in 1..idx :
        LET t == movies_df[i].title
        IN  IsStr(t) =>
              IF EndsWithYear(t)
              THEN /\ extract_year_from_title(t) = Some(TrailingYear(t))
                   /\ clean_title_for_query(t) = WithoutTrailingYear(t)
              ELSE /\ extract_year_from_title(t) = None
                   /\ clean_title_for_query(t) = Strip(t)

\* the title of the latest enrich_movie call
CallTitle == movies_df[idx].title

\* the clean title cut at its first ":", "-" or en dash, trimmed
Prefix(clean) ==
    IF \E i \in 1..Len(clean) : clean[i] \in {":", "-", EnDash}
    THEN LET first == CHOOSE i \in 1..Len(clean) :
                          /\ clean[i] \in {":", "-", EnDash}
                          /\ \A j \in 1..(i - 1) : clean[j] \notin {":", "-", EnDash}
         IN  Strip(SubSeq(clean, 1, first - 1))
    ELSE Strip(clean)

\* C14: the queries of an enrich_movie call are submitted in the order
\* 1 (clean title, year), 2 (clean title), 3 (prefix, year), 4 (prefix): the
\* call starts with 1 when the title has a year and with 2 otherwise, goes
\* from one query to the next only after a query that returned no record,
\* submits 3 and 4 only when the prefix is non-empty and is not the clean
\* title, and ends without a record only when no query is left.
C14_FallbackOrder ==
    asked # <<>> =>
        LET clean == clean_title_for_query(CallTitle)
            hasPrefix == Prefix(clean) # <<>> /\ Prefix(clean) # clean
            n == Len(asked)
        IN  /\ asked[1] = IF extract_year_from_title(CallTitle) # None THEN 1 ELSE 2
            /\ \A i \in 1..(n - 1) : asked[i + 1] = asked[i] + 1
            /\ asked[n] <= 4
            /\ asked[n] >= 3 => hasPrefix
            /\ pc = "query" => (outcome # "record" /\ q = asked[n] + 1)
            /\ (pc = "movies" /\ outcome # "record") =>
                   asked[n] = IF hasPrefix THEN 4 ELSE 2

\* C14 witness: for "A:B (1995)" the four queries were submitted in order and
\* the last one, for the prefix "A" without the year, returned the record
C14_Witness ==
    /\ pc = "movies"
    /\ idx >= 1
    /\ CallTitle = TitleColon
    /\ asked = <<1, 2, 3, 4>>
    /\ outcome = "record"
    /\ enriched_count >= 1

\* C15: a query_omdb call that a 401 reply ended, whichever of its three
\* requests it answered, has set RATE_LIMITED.
C15_Any401SetsFlag == outcome = "unauthorized" => RATE_LIMITED

\* C16: with the credential set, when an enrich_movie call has stored None
\* under its key, one of its requests was answered "not found".
C16_NoneIsConfirmedMiss ==
    (OMDB_API_KEY /\ pc = "movies" /\ asked # <<>>
        /\ CacheKey(CallTitle) \in DOMAIN cache
        /\ cache[CacheKey(CallTitle)] = None) => answered

\* C19: the queries of one enrich_movie call differ in their (title, year)
\* arguments.
C19_NoRepeatedQuery ==
    \A i, j \in 1..Len(asked) :
        i < j => QueryArgs(CallTitle, asked[i]) # QueryArgs(CallTitle, asked[j])

\* C17: when --recreate-ratings was given and the recreation did not raise,
\* the ratings phase starts from an empty ratings table, and the table the
\* run found is among the ratings_bad_<ts> tables.
C17_RecreateGivesFreshTable ==
    (recreate_ratings /\ pc \notin {"connect", "recreate"}
        /\ exit \notin {"raised", "connect_failed"}) =>
        /\ ratings # None
        /\ pc = "load" => ratings = Some(NoTable)
        /\ ratings0 # None => ratings0[1] \in backups

\* the enrichment columns of row m of a movies table (NULL when it has none)
EnrichmentOf(tbl, m) ==
    IF m \in DOMAIN tbl THEN EnrichmentColumns(tbl[m])
    ELSE <<None, None, None, None, None, None>>

\* the rows whose enrichment the connection has written and not committed
UncommittedEnrichments ==
    {m \in DOMAIN movies : EnrichmentOf(movies, m) # EnrichmentOf(moviesCommitted, m)}

\* C18: in the movie loop a commit is issued whenever enriched_count reaches
\* a multiple of COMMIT_EVERY: the step that writes such an enrichment leaves
\* nothing uncommitted (unless the commit fails, and then the loop goes on),
\* so fewer than COMMIT_EVERY enrichments are ever uncommitted while the
\* store does not fail.
C18_PeriodicCommit ==
    [][/\ (pc' \in {"movies", "query", "search", "lookup"} /\ ~faults) =>
            (Cardinality(UncommittedEnrichments) < COMMIT_EVERY)'
       /\ (enriched_count' = enriched_count + 1
             /\ enriched_count' % COMMIT_EVERY = 0) =>
            /\ pc' = "movies"
            /\ \/ moviesCommitted' = movies'
               \/ faults /\ moviesCommitted' = moviesCommitted
      ]_vars

\* C18 witness: the loop has written COMMIT_EVERY enrichments to two rows
\* and, still in the loop, has all of it committed
C18_Witness ==
    /\ pc = "movies"
    /\ enriched_count = COMMIT_EVERY
    /\ moviesCommitted = movies
    /\ Cardinality(DOMAIN movies) >= 2
    /\ \A m \in DOMAIN movies : movies[m].last_enriched_at # None

\* C20: a run that ended because movies.csv is absent has left both tables
\* as it found them and has renamed or created none.
C20_MissingCatalogLeavesStore ==
    exit = "no_movies" =>
        /\ movies = movies0
        /\ moviesCommitted = movies0
        /\ ratings = ratings0
        /\ ratingsCommitted = ratings0
        /\ backups = {}

=============================================================================
